---- MODULE Spec2Model ----
(***************************************************************************)
(* Three parts of pkgsite, each with its own specification:                *)
(*   Spec          the symbol search queries of package symbolsearch,      *)
(*   SpecServe     the lookups of frontend's legacyServePackagePage,       *)
(*   SpecVersions  the grouping of versions by fetchVersionsDetails.       *)
(* A specification leaves the variables of the other two parts idle.       *)
(*                                                                         *)
(* constructQuery builds one SQL statement per filter.  The statement is   *)
(* kept here as an expression tree (the text the Go code formats, read as  *)
(* SQL), and Execute evaluates that tree over a corpus of                  *)
(* symbol_search_documents rows the way the statement does: the results    *)
(* CTE (WHERE filter, score column), then WHERE r.score > 0.1, ORDER BY    *)
(* and LIMIT $2.                                                           *)
(*                                                                         *)
(* Text values are sequences of one-character strings.  Numbers are fixed  *)
(* point: ranks and ln() in thousandths, scores in millionths.             *)
(***************************************************************************)
EXTENDS Integers, Sequences, FiniteSets, TLC

VARIABLES
    corpus,     \* the rows of symbol_search_documents (ids into RowTable)
    arg1,       \* $1, the search text
    arg2,       \* $2, the limit
    query,      \* the statement constructQuery built, or NoQuery
    pc,         \* "init" -> "built" -> "done"; "off" when idle
    status,     \* outcome of the statement: "none", "ok", "error"
    results,    \* the rows of the results CTE, each with its score
    rows,       \* the rows the statement returns, in order
    \* legacyServePackagePage
    ds,                 \* what the data source answers to each lookup
    requestedVersion,   \* the version the request names
    servePc,            \* where legacyServePackagePage is
    calls,              \* the lookups made so far, in order
    served,             \* what was written to the response
    ret,                \* what legacyServePackagePage returned
    \* fetchVersionsDetails
    pkg,            \* the package whose versions are listed
    versions,       \* the versions the database returned
    dbCalls,        \* the database calls made
    versionsPc,     \* where fetchVersionsDetails is
    idx,            \* the index of the next element of the range loop
    packages,       \* the allocated Package objects; a pointer is an index
    seriesGroups,   \* the allocated SeriesVersionGroup objects
    majorGroups,    \* the allocated MajorVersionGroup objects
    minorGroups,    \* the allocated MinorVersionGroup objects
    svg,            \* the slice of pointers to series groups
    curSeries,      \* pointers to the current groups; 0 is nil
    curMajor,
    curMinor,
    versionsRet     \* what fetchVersionsDetails returned

searchVars == <<corpus, arg1, arg2, query, pc, status, results, rows>>
serveVars == <<ds, requestedVersion, servePc, calls, served, ret>>
versionsVars == <<pkg, versions, dbCalls, versionsPc, idx, packages,
                  seriesGroups, majorGroups, minorGroups, svg,
                  curSeries, curMajor, curMinor, versionsRet>>

vars == <<searchVars, serveVars, versionsVars>>

(***************************************************************************)
(* Bounds of the model.                                                    *)
(***************************************************************************)
MaxCorpus == 3      \* at most this many rows in the corpus
MaxLimit == 2       \* $2 ranges over -1 .. MaxLimit

(***************************************************************************)
(* Text.                                                                   *)
(***************************************************************************)
NULL == <<"NULL">>      \* SQL NULL; no text holds a multi-character element

\* Byte order of the characters the model uses (C collation).
CharCode(c) ==
    CASE c = "\t" -> 9
      [] c = " " -> 32
      [] c = "-" -> 45
      [] c = "." -> 46
      [] c = "/" -> 47
      [] c = "A" -> 65
      [] c = "B" -> 66
      [] c = "C" -> 67
      [] c = "_" -> 95
      [] c = "a" -> 97
      [] c = "b" -> 98
      [] c = "c" -> 99
      [] c = "|" -> 124

\* s < t for text, as ORDER BY compares symbol_name and package_path.
RECURSIVE TextLess(_, _)
TextLess(s, t) ==
    IF t = <<>> THEN FALSE
    ELSE IF s = <<>> THEN TRUE
    ELSE IF Head(s) = Head(t) THEN TextLess(Tail(s), Tail(t))
    ELSE CharCode(Head(s)) < CharCode(Head(t))

LowerChar(c) ==
    CASE c = "A" -> "a"
      [] c = "B" -> "b"
      [] c = "C" -> "c"
      [] OTHER -> c

Lower(s) == [i \in 1..Len(s) |-> LowerChar(s[i])]

\* Index of the first occurrence of character c in s, 0 if there is none.
RECURSIVE IndexFrom(_, _, _)
IndexFrom(s, c, i) ==
    IF i > Len(s) THEN 0
    ELSE IF s[i] = c THEN i
    ELSE IndexFrom(s, c, i + 1)

IndexOf(s, c) == IndexFrom(s, c, 1)

\* SQL replace(s, from, to) for a one-character from.
RECURSIVE SqlReplace(_, _, _)
SqlReplace(s, from, to) ==
    IF s = NULL THEN NULL
    ELSE IF s = <<>> THEN <<>>
    ELSE (IF Head(s) = from THEN to ELSE <<Head(s)>>)
             \o SqlReplace(Tail(s), from, to)

\* SQL split_part(s, sep, 1): the text before the first sep, all of s if none.
SqlSplitPart1(s, sep) ==
    IF s = NULL THEN NULL
    ELSE IF IndexOf(s, sep) = 0 THEN s
    ELSE SubSeq(s, 1, IndexOf(s, sep) - 1)

\* SQL substring(s from E'[^.]*\\.(.+)$'): the capture of the leftmost match.
\* [^.]* cannot cross a dot, so the \. of any match is the first dot of s and
\* (.+)$ is everything after it, which must not be empty; NULL on no match.
SqlSubstringAfterDot(s) ==
    IF s = NULL THEN NULL
    ELSE IF IndexOf(s, ".") = 0 \/ IndexOf(s, ".") = Len(s) THEN NULL
    ELSE SubSeq(s, IndexOf(s, ".") + 1, Len(s))

(***************************************************************************)
(* The SQL the package formats, as expression trees.                       *)
(***************************************************************************)
SymbolTextSearchConfiguration == "symbols"

Param1 == <<"param", 1>>

splitOR == <<"replace", Param1, " ", <<" ", "|", " ">> >>

splitFirstDot == <<"split_part", Param1, ".", 1>>

substringAfterDot == <<"substring", Param1, "[^.]*\\.(.+)$">>

IsParam(arg) == arg[1] = "param"

\* strings.ReplaceAll(arg, s, "replace(s, '_', '-')") on the tree of arg.
RECURSIVE ReplaceParam(_, _)
ReplaceParam(arg, n) ==
    CASE arg[1] = "param" ->
            IF arg[2] = n THEN <<"replace", arg, "_", <<"-">> >> ELSE arg
      [] arg[1] = "replace" ->
            <<"replace", ReplaceParam(arg[2], n), arg[3], arg[4]>>
      [] arg[1] = "split_part" ->
            <<"split_part", ReplaceParam(arg[2], n), arg[3], arg[4]>>
      [] arg[1] = "substring" ->
            <<"substring", ReplaceParam(arg[2], n), arg[3]>>

\* Variant: the argument is passed on as it is.
processArgUnchanged(arg) == arg

processArg(arg) ==
    LET s == IF IsParam(arg) THEN arg[2] ELSE 1
    IN  ReplaceParam(arg, s)

toTSQuery(arg) ==
    <<"to_tsquery", SymbolTextSearchConfiguration, processArg(arg)>>

formatScore(s) == <<"paren", s>>

formatFilter(s) == <<"paren", s>>

\* "* s": the right operand of a product, appended to the left operand.
formatMultiplier(s) == <<"mul", s>>

filterSymbol == <<"tsmatch", "s.tsv_name_tokens", toTSQuery(Param1)>>

filterSymbolOR == <<"tsmatch", "s.tsv_name_tokens", toTSQuery(splitOR)>>

\* Variant: the head is normalized like a match token before the comparison.
filterPackageNameOrPathNormalized ==
    <<"paren", <<"or", <<"eq", "sd.name", processArg(splitFirstDot)>>,
                       <<"eq", "sd.package_path", processArg(splitFirstDot)>> >> >>

filterPackageNameOrPath ==
    <<"paren", <<"or", <<"eq", "sd.name", splitFirstDot>>,
                       <<"eq", "sd.package_path", splitFirstDot>> >> >>

\* Variant: the package test and the symbol test joined by OR.
filterPackageDotSymbolOr ==
    <<"or", <<"paren", <<"or", <<"eq", "sd.name", splitFirstDot>>,
                               <<"eq", "sd.package_path", splitFirstDot>> >> >>,
            formatFilter(<<"tsmatch", "s.tsv_name_tokens",
                                      toTSQuery(substringAfterDot)>>)>>

filterPackageDotSymbol ==
    <<"and", filterPackageNameOrPath,
             formatFilter(<<"tsmatch", "s.tsv_name_tokens",
                                       toTSQuery(substringAfterDot)>>)>>

filterPackage == <<"tsmatch", "sd.tsv_path_tokens", toTSQuery(splitOR)>>

\* Variant: the symbol test and the package test joined by OR.
filterMultiWordOr ==
    <<"or", formatFilter(filterSymbolOR),
            formatFilter(<<"tsmatch", "sd.tsv_path_tokens", toTSQuery(splitOR)>>)>>

filterMultiWord ==
    <<"and", formatFilter(filterSymbolOR), formatFilter(filterPackage)>>

\* '{0.1, 0.2, 1.0, 1.0}': the weights of the classes D, C, B, A, in thousandths.
RankWeights == [D |-> 100, C |-> 200, B |-> 1000, A |-> 1000]

popularityMultiplier == <<"ln_exp1_plus", "sd.imported_by_count">>

rankPathTokens ==
    <<"ts_rank", RankWeights, "sd.tsv_path_tokens", toTSQuery(splitOR)>>

\* Variant: the rank alone, without the popularity multiplier.
scoreMultiWordRankOnly == rankPathTokens

\* Variant: the popularity multiplier alone, without the rank.
scoreMultiWordPopularityOnly == popularityMultiplier

\* fmt.Sprintf("%s%s", rankPathTokens, formatMultiplier(popularityMultiplier))
scoreMultiWord ==
    LET m == formatMultiplier(popularityMultiplier)
    IN  <<m[1], rankPathTokens, m[2]>>

\* fmt.Sprintf(symbolSearchBaseQuery, score, where)
symbolSearchBaseQuery(score, where) == [score |-> score, where |-> where]

\* Variant: the popularity score for every filter.
constructQueryPopularityOnly(where) ==
    symbolSearchBaseQuery(popularityMultiplier, where)

constructQuery(where) ==
    LET score == IF where = filterMultiWord
                 THEN formatScore(scoreMultiWord)
                 ELSE popularityMultiplier
    IN  symbolSearchBaseQuery(score, where)

rawLegacyQuerySymbol == constructQuery(filterSymbol)
rawLegacyQueryPackageDotSymbol == constructQuery(filterPackageDotSymbol)
rawLegacyQueryMultiWord == constructQuery(filterMultiWord)

(***************************************************************************)
(* The corpus: search_documents (packages), symbol_names (symbols) and     *)
(* symbol_search_documents (one row per symbol, package and build target). *)
(* The token columns are written by the indexer and only read here.        *)
(***************************************************************************)
PackageTable ==
    <<  [name |-> <<"a">>, package_path |-> <<"a">>,
         tsv_path_tokens |-> {[lex |-> <<"a">>, pos |-> <<"A">>]},
         imported_by_count |-> 50, commit_time |-> 2],
        [name |-> <<"a">>, package_path |-> <<"c", "/", "a">>,
         tsv_path_tokens |-> {[lex |-> <<"a">>, pos |-> <<"A">>],
                              [lex |-> <<"c">>, pos |-> <<"C">>]},
         imported_by_count |-> 5, commit_time |-> 3],
        [name |-> <<"b">>, package_path |-> <<"b">>,
         tsv_path_tokens |-> {[lex |-> <<"b">>, pos |-> <<"D">>]},
         imported_by_count |-> 0, commit_time |-> 1],
        [name |-> <<"A">>, package_path |-> <<"A">>,
         tsv_path_tokens |-> {[lex |-> <<"a">>, pos |-> <<"B", "D">>]},
         imported_by_count |-> 5, commit_time |-> 3],
        [name |-> <<"a", "_", "b">>, package_path |-> <<"a", "_", "b">>,
         tsv_path_tokens |-> {[lex |-> <<"a", "-", "b">>, pos |-> <<"A">>]},
         imported_by_count |-> 1, commit_time |-> 2]  >>

\* The name tokens the indexer stores for a symbol name: the name with
\* underscores as hyphens, case folded, and for a hyphenated name each of
\* its parts as well, so that a search for a part finds the name as a near miss.
IndexNameTokens(name) ==
    LET n == [i \in 1..Len(name) |->
                LowerChar(IF name[i] = "_" THEN "-" ELSE name[i])]
        parts == {[k \in 1..(p[2] - p[1] + 1) |-> n[p[1] + k - 1]] : p \in
                    {p \in (1..Len(n)) \X (1..Len(n)) :
                        /\ p[1] <= p[2]
                        /\ \A k \in p[1]..p[2] : n[k] # "-"
                        /\ (p[1] = 1 \/ n[p[1] - 1] = "-")
                        /\ (p[2] = Len(n) \/ n[p[2] + 1] = "-")}}
    IN  {n} \cup parts

SymbolTable ==
    <<  [name |-> <<"B">>, tsv_name_tokens |-> IndexNameTokens(<<"B">>)],
        [name |-> <<"A">>, tsv_name_tokens |-> IndexNameTokens(<<"A">>)],
        [name |-> <<"A", "_", "B">>,
         tsv_name_tokens |-> IndexNameTokens(<<"A", "_", "B">>)],
        [name |-> <<"B", ".", "C">>,
         tsv_name_tokens |-> IndexNameTokens(<<"B", ".", "C">>)]  >>

RowTable ==
    <<  [sym |-> 1, pkg |-> 1, goos |-> "linux", goarch |-> "amd64"],
        [sym |-> 1, pkg |-> 1, goos |-> "windows", goarch |-> "amd64"],
        [sym |-> 1, pkg |-> 2, goos |-> "all", goarch |-> "all"],
        [sym |-> 1, pkg |-> 3, goos |-> "all", goarch |-> "all"],
        [sym |-> 1, pkg |-> 4, goos |-> "all", goarch |-> "all"],
        [sym |-> 2, pkg |-> 1, goos |-> "all", goarch |-> "all"],
        [sym |-> 3, pkg |-> 5, goos |-> "all", goarch |-> "all"],
        [sym |-> 4, pkg |-> 1, goos |-> "all", goarch |-> "all"],
        [sym |-> 3, pkg |-> 1, goos |-> "all", goarch |-> "all"],
        [sym |-> 2, pkg |-> 3, goos |-> "all", goarch |-> "all"]  >>

RowIds == 1..Len(RowTable)

Sym(id) == SymbolTable[RowTable[id].sym]
Pkg(id) == PackageTable[RowTable[id].pkg]

\* The search texts $1 is drawn from.
Queries ==
    {   <<"B">>, <<"A">>, <<"A", "_", "B">>,
        <<"a", ".", "B">>, <<"A", ".", "B">>, <<".", "B">>, <<"a", ".">>,
        <<"a", ".", "B", ".", "C">>, <<"c", "/", "a", ".", "B">>,
        <<"a", "_", "b", ".", "A", "_", "B">>,
        <<"a", " ", "B">>, <<"a", " ", " ", "B">>, <<"a", "\t", "B">>,
        <<"b", " ", "B">>, <<"c", " ", "B">>, <<"B", " ", "c">>,
        <<"a", ".", "B", " ", "a">>,
        <<"a", " ", "A", "_", "B">>  }

(***************************************************************************)
(* Evaluation of the SQL expressions.                                      *)
(***************************************************************************)
RECURSIVE EvalText(_, _)
EvalText(e, a1) ==
    CASE e[1] = "param" -> a1
      [] e[1] = "replace" -> SqlReplace(EvalText(e[2], a1), e[3], e[4])
      [] e[1] = "split_part" -> SqlSplitPart1(EvalText(e[2], a1), e[3])
      [] e[1] = "substring" -> SqlSubstringAfterDot(EvalText(e[2], a1))

IsSpace(c) == c \in {" ", "\t"}

OrToken == <<"|">>

\* The tokens of a tsquery text: operands (runs of characters that are neither
\* white space nor an operator) and the operator |.
RECURSIVE TsTokens(_, _)
TsTokens(s, cur) ==
    LET flush == IF cur = <<>> THEN <<>> ELSE <<cur>>
    IN  IF s = <<>> THEN flush
        ELSE IF IsSpace(Head(s)) THEN flush \o TsTokens(Tail(s), <<>>)
        ELSE IF Head(s) = "|" THEN flush \o <<OrToken>> \o TsTokens(Tail(s), <<>>)
        ELSE TsTokens(Tail(s), Append(cur, Head(s)))

\* operand (| operand)*: an operand where an operator is expected, or an
\* operator where an operand is expected, is a syntax error.
WellFormedTokens(toks) ==
    /\ Len(toks) % 2 = 1
    /\ \A i \in 1..Len(toks) : (toks[i] = OrToken) <=> (i % 2 = 0)

\* The lexemes the text search configuration makes of one operand; the
\* operand matches when all of them are present.
Lexize(word) == {Lower(word)}

\* to_tsquery(config, text): NULL for NULL, an error for malformed text, the
\* empty query for text without operands, else the alternatives of the query.
ToTsquery(text) ==
    LET toks == TsTokens(text, <<>>)
    IN  IF text = NULL THEN [k |-> "null", ors |-> {}]
        ELSE IF toks = <<>> THEN [k |-> "query", ors |-> {}]
        ELSE IF ~WellFormedTokens(toks) THEN [k |-> "error", ors |-> {}]
        ELSE [k |-> "query",
              ors |-> {Lexize(toks[i]) : i \in {j \in 1..Len(toks) : j % 2 = 1}}]

EvalTsquery(e, a1) == ToTsquery(EvalText(e[3], a1))

\* tsvector @@ tsquery over a set of lexemes.
TsMatch(lexemes, q) == \E alt \in q.ors : alt \subseteq lexemes

Column(c, id) ==
    CASE c = "s.tsv_name_tokens" -> Sym(id).tsv_name_tokens
      [] c = "sd.tsv_path_tokens" -> {t.lex : t \in Pkg(id).tsv_path_tokens}
      [] c = "sd.name" -> Pkg(id).name
      [] c = "sd.package_path" -> Pkg(id).package_path
      [] c = "sd.imported_by_count" -> Pkg(id).imported_by_count

\* SQL's three-valued logic: "T", "F", "N" (unknown).
And3(x, y) ==
    IF x = "F" \/ y = "F" THEN "F" ELSE IF x = "T" /\ y = "T" THEN "T" ELSE "N"

Or3(x, y) ==
    IF x = "T" \/ y = "T" THEN "T" ELSE IF x = "F" /\ y = "F" THEN "F" ELSE "N"

RECURSIVE EvalBool(_, _, _)
EvalBool(f, id, a1) ==
    CASE f[1] = "paren" -> EvalBool(f[2], id, a1)
      [] f[1] = "and" -> And3(EvalBool(f[2], id, a1), EvalBool(f[3], id, a1))
      [] f[1] = "or" -> Or3(EvalBool(f[2], id, a1), EvalBool(f[3], id, a1))
      [] f[1] = "eq" ->
            LET v == EvalText(f[3], a1)
            IN  IF v = NULL THEN "N"
                ELSE IF Column(f[2], id) = v THEN "T" ELSE "F"
      [] f[1] = "tsmatch" ->
            LET q == EvalTsquery(f[3], a1)
            IN  IF q.k # "query" THEN "N"
                ELSE IF TsMatch(Column(f[2], id), q) THEN "T" ELSE "F"

\* Some to_tsquery call of the expression raises a syntax error.
RECURSIVE HasTsError(_, _)
HasTsError(e, a1) ==
    CASE e[1] = "paren" -> HasTsError(e[2], a1)
      [] e[1] \in {"and", "or", "mul"} -> HasTsError(e[2], a1) \/ HasTsError(e[3], a1)
      [] e[1] = "tsmatch" -> HasTsError(e[3], a1)
      [] e[1] = "ts_rank" -> HasTsError(e[4], a1)
      [] e[1] = "to_tsquery" -> EvalTsquery(e, a1).k = "error"
      [] OTHER -> FALSE

(***************************************************************************)
(* Scores.  ln() and ts_rank() are in thousandths, a score in millionths.  *)
(***************************************************************************)
\* round(1000 * ln(exp(1) + n)) for n = 0 .. 60.
LnTable ==
    <<1000, 1313, 1551, 1744, 1905, 2044, 2165, 2274, 2372, 2461, 2543, 2619,
      2689, 2755, 2817, 2875, 2930, 2982, 3031, 3078, 3123, 3166, 3208, 3247,
      3285, 3322, 3358, 3392, 3425, 3457, 3488, 3518, 3547, 3576, 3603, 3630,
      3656, 3682, 3707, 3731, 3755, 3778, 3800, 3822, 3844, 3865, 3886, 3906,
      3926, 3946, 3965, 3984, 4002, 4020, 4038, 4056, 4073, 4090, 4106, 4123,
      4139>>

\* ln(exp(1) + n)
LnExp1Plus(n) == LnTable[n + 1]

\* sum over j = from .. Len(ws) of ws[j] / j^2
RECURSIVE SumPositions(_, _)
SumPositions(ws, from) ==
    IF from > Len(ws) THEN 0
    ELSE ws[from] \div (from * from) + SumPositions(ws, from + 1)

\* ts_rank's share of one matching lexeme with the position weights ws:
\* (wmax + sum_j ws[j]/j^2 - wmax/jmax^2) / (pi^2/6).
RankOfEntry(ws) ==
    LET resj == SumPositions(ws, 1)
        jm == CHOOSE j \in 1..Len(ws) :
                /\ \A i \in 1..Len(ws) : ws[i] <= ws[j]
                /\ \A i \in 1..(j - 1) : ws[i] < ws[j]
    IN  ((ws[jm] + resj - ws[jm] \div (jm * jm)) * 10000) \div 16449

RECURSIVE SumShares(_, _)
SumShares(entries, weights) ==
    IF entries = {} THEN 0
    ELSE LET t == CHOOSE x \in entries : TRUE
         IN  RankOfEntry([j \in 1..Len(t.pos) |-> weights[t.pos[j]]])
                + SumShares(entries \ {t}, weights)

\* ts_rank(weights, tsvector, tsquery) for a query of alternatives: the shares
\* of the query lexemes found in the vector, over the number of query lexemes.
TsRank(weights, tsv, q) ==
    LET items == UNION q.ors
        found == {t \in tsv : t.lex \in items}
    IN  IF items = {} THEN 0
        ELSE SumShares(found, weights) \div Cardinality(items)

RECURSIVE EvalScore(_, _, _)
EvalScore(e, id, a1) ==
    CASE e[1] = "paren" -> EvalScore(e[2], id, a1)
      [] e[1] = "ln_exp1_plus" -> LnExp1Plus(Column(e[2], id)) * 1000
      [] e[1] = "ts_rank" ->
            TsRank(e[2], Pkg(id).tsv_path_tokens, EvalTsquery(e[4], a1)) * 1000
      [] e[1] = "mul" ->
            (EvalScore(e[2], id, a1) \div 1000) * (EvalScore(e[3], id, a1) \div 1000)

(***************************************************************************)
(* The statement: results CTE, threshold, order, limit.                    *)
(***************************************************************************)
\* Variant: one row per symbol and package (SELECT DISTINCT ON).
ResultsCTEDistinct(q, a1, docs) ==
    {[id |-> id, score |-> EvalScore(q.score, id, a1)] :
        id \in {d \in docs :
                    /\ EvalBool(q.where, d, a1) = "T"
                    /\ \A o \in docs :
                        (/\ EvalBool(q.where, o, a1) = "T"
                         /\ RowTable[o].sym = RowTable[d].sym
                         /\ RowTable[o].pkg = RowTable[d].pkg) => d <= o}}

\* WITH results AS (SELECT ..., <score> AS score FROM ... WHERE <where>)
ResultsCTE(q, a1, docs) ==
    {[id |-> id, score |-> EvalScore(q.score, id, a1)] :
        id \in {d \in docs : EvalBool(q.where, d, a1) = "T"}}

ScoreFloor == 100000     \* 0.1

\* Variant: a floor of 0.01.
AboveFloorLower(r) == r.score > ScoreFloor \div 10

\* WHERE r.score > 0.1
AboveFloor(r) == r.score > ScoreFloor

\* Variant: ORDER BY score (ascending), commit_time DESC, symbol_name, package_path.
OrderedBeforeScoreAsc(r1, r2) ==
    \/ r1.score < r2.score
    \/ /\ r1.score = r2.score
       /\ \/ Pkg(r1.id).commit_time > Pkg(r2.id).commit_time
          \/ /\ Pkg(r1.id).commit_time = Pkg(r2.id).commit_time
             /\ \/ TextLess(Sym(r1.id).name, Sym(r2.id).name)
                \/ /\ Sym(r1.id).name = Sym(r2.id).name
                   /\ TextLess(Pkg(r1.id).package_path, Pkg(r2.id).package_path)

\* ORDER BY score DESC, commit_time DESC, symbol_name, package_path:
\* r1 sorts strictly before r2.
OrderedBefore(r1, r2) ==
    \/ r1.score > r2.score
    \/ /\ r1.score = r2.score
       /\ \/ Pkg(r1.id).commit_time > Pkg(r2.id).commit_time
          \/ /\ Pkg(r1.id).commit_time = Pkg(r2.id).commit_time
             /\ \/ TextLess(Sym(r1.id).name, Sym(r2.id).name)
                \/ /\ Sym(r1.id).name = Sym(r2.id).name
                   /\ TextLess(Pkg(r1.id).package_path, Pkg(r2.id).package_path)

\* The orders ORDER BY may produce: rows that tie on every key come in any order.
RECURSIVE OrderBy(_)
OrderBy(S) ==
    IF S = {} THEN {<<>>}
    ELSE UNION {{<<r>> \o t : t \in OrderBy(S \ {r})} :
                    r \in {x \in S : \A y \in S : ~OrderedBefore(y, x)}}

\* Variant: one row more than the limit.
LimitOneMore(s, n) == SubSeq(s, 1, IF n + 1 < Len(s) THEN n + 1 ELSE Len(s))

\* Variant: the last n rows instead of the first n.
LimitLast(s, n) == SubSeq(s, (IF n < Len(s) THEN Len(s) - n ELSE 0) + 1, Len(s))

\* LIMIT n, for n >= 0.
Limit(s, n) == SubSeq(s, 1, IF n < Len(s) THEN n ELSE Len(s))

\* The select list of the outer SELECT for a row of results.
Select(r) ==
    [symbol_name |-> Sym(r.id).name,
     package_path |-> Pkg(r.id).package_path,
     package_name |-> Pkg(r.id).name,
     commit_time |-> Pkg(r.id).commit_time,
     imported_by_count |-> Pkg(r.id).imported_by_count,
     goos |-> RowTable[r.id].goos,
     goarch |-> RowTable[r.id].goarch]

\* The statement fails: a to_tsquery syntax error, or a negative LIMIT.
StatementFails(q, a1, a2) ==
    \/ HasTsError(q.where, a1)
    \/ HasTsError(q.score, a1)
    \/ a2 < 0

(***************************************************************************)
(* legacyServePackagePage: the lookups for pkgPath@version and what is     *)
(* served.  One action per data source call, with the handling that        *)
(* follows it up to the next call or the return.                           *)
(***************************************************************************)
LatestVersion == "latest"

LookupResults == {"found", "NotFound", "error"}

\* pathNotFoundError and pathFoundAtLatestError: server errors with status 404.
pathNotFoundError == "404 not found"
pathFoundAtLatestError == "404 found at latest"

\* Variant: the requested version is never taken to be the latest.
IsLatestNever(v) == FALSE

\* requestedVersion == internal.LatestVersion
IsLatest(v) == v = LatestVersion

ServeIdle ==
    /\ ds = [package |-> "NotFound", directory |-> "NotFound", latest |-> "NotFound"]
    /\ requestedVersion = LatestVersion
    /\ servePc = "off"
    /\ calls = <<>>
    /\ served = "none"
    /\ ret = "none"

\* legacyServePackagePageWithPackage: a redirect to the default tab or the
\* page, and nil; or an error from the package header or the tab's details.
ServePackagePageWithPackage ==
    \/ served' = "redirect" /\ ret' = "nil"
    \/ served' = "package page" /\ ret' = "nil"
    \/ served' = "none" /\ ret' = "error"

\* legacyServeDirectoryPage: the directory page and nil, or an error.
ServeDirectoryPage ==
    \/ served' = "directory page" /\ ret' = "nil"
    \/ served' = "none" /\ ret' = "error"

\* s.ds.LegacyGetPackage(ctx, pkgPath, modulePath, resolvedVersion)
GetPackage ==
    /\ servePc = "package"
    /\ calls' = Append(calls, "package@resolved")
    /\ CASE ds.package = "found" ->
                ServePackagePageWithPackage /\ servePc' = "returned"
         [] ds.package = "error" ->
                served' = served /\ ret' = "error" /\ servePc' = "returned"
         [] ds.package = "NotFound" ->
                served' = served /\ ret' = ret /\ servePc' = "directory"
    /\ UNCHANGED <<ds, requestedVersion, searchVars, versionsVars>>

\* s.ds.LegacyGetDirectory(ctx, pkgPath, modulePath, resolvedVersion, AllFields)
GetDirectory ==
    /\ servePc = "directory"
    /\ calls' = Append(calls, "directory@resolved")
    /\ IF IsLatest(requestedVersion)
       THEN CASE ds.directory = "found" ->
                    ServeDirectoryPage /\ servePc' = "returned"
              [] ds.directory = "NotFound" ->
                    served' = served /\ ret' = pathNotFoundError
                        /\ servePc' = "returned"
              [] ds.directory = "error" ->
                    served' = served /\ ret' = "error" /\ servePc' = "returned"
       ELSE CASE ds.directory = "found" ->
                    ServeDirectoryPage /\ servePc' = "returned"
              [] ds.directory = "error" ->
                    served' = served /\ ret' = "checking for directory: error"
                        /\ servePc' = "returned"
              [] ds.directory = "NotFound" ->
                    served' = served /\ ret' = ret /\ servePc' = "latest"
    /\ UNCHANGED <<ds, requestedVersion, searchVars, versionsVars>>

\* s.ds.LegacyGetPackage(ctx, pkgPath, modulePath, internal.LatestVersion)
GetPackageLatest ==
    /\ servePc = "latest"
    /\ calls' = Append(calls, "package@latest")
    /\ served' = served
    /\ servePc' = "returned"
    /\ ret' = CASE ds.latest = "found" -> pathFoundAtLatestError
                [] ds.latest = "error" -> "nil"
                [] ds.latest = "NotFound" -> pathNotFoundError
    /\ UNCHANGED <<ds, requestedVersion, searchVars, versionsVars>>

SearchIdle ==
    /\ corpus = {}
    /\ arg1 = <<>>
    /\ arg2 = 0
    /\ query = [score |-> <<"none">>, where |-> <<"none">>]
    /\ pc = "off"
    /\ status = "none"
    /\ results = {}
    /\ rows = <<>>

VersionsIdle ==
    /\ pkg = [Path |-> <<>>, V1Path |-> <<>>, SeriesPath |-> <<>>]
    /\ versions = <<>>
    /\ dbCalls = <<>>
    /\ versionsPc = "off"
    /\ idx = 1
    /\ packages = <<>>
    /\ seriesGroups = <<>>
    /\ majorGroups = <<>>
    /\ minorGroups = <<>>
    /\ svg = <<>>
    /\ curSeries = 0
    /\ curMajor = 0
    /\ curMinor = 0
    /\ versionsRet = "none"

ServeInit ==
    /\ ds \in [package : LookupResults, directory : LookupResults,
               latest : LookupResults]
    /\ requestedVersion \in {LatestVersion, "v1.0.0"}
    /\ servePc = "package"
    /\ calls = <<>>
    /\ served = "none"
    /\ ret = "none"
    /\ SearchIdle
    /\ VersionsIdle

ServeNext == GetPackage \/ GetDirectory \/ GetPackageLatest

SpecServe == ServeInit /\ [][ServeNext]_vars

(***************************************************************************)
(* fetchVersionsDetails: the versions of a package series grouped by       *)
(* series, major and major.minor.  Objects live in per-type heaps          *)
(* (sequences in allocation order) and a pointer is an index, 0 for nil,   *)
(* so that a group reached through two pointers is one object.             *)
(***************************************************************************)
MaxVersions == 3

HasPrefix(s, prefix) ==
    /\ Len(prefix) <= Len(s)
    /\ \A i \in 1..Len(prefix) : s[i] = prefix[i]

TrimPrefix(s, prefix) ==
    IF HasPrefix(s, prefix) THEN SubSeq(s, Len(prefix) + 1, Len(s)) ELSE s

Digits == {"0", "1", "2", "3", "4", "5", "6", "7", "8", "9"}

\* The index after the run of digits of v that starts at i.
RECURSIVE NumEnd(_, _)
NumEnd(v, i) ==
    IF i <= Len(v) /\ v[i] \in Digits THEN NumEnd(v, i + 1) ELSE i

\* A number of a semantic version: digits, with no leading zero.
IsNum(v, i, e) == e > i /\ (v[i] = "0" => e = i + 1)

\* semver's parse of vMAJOR[.MINOR[.PATCH[-PRERELEASE][+BUILD]]]: whether v is
\* valid, and where its major and minor numbers end.
SemverParse(v) ==
    LET bad == [ok |-> FALSE, major |-> 0, minor |-> 0]
        e1 == NumEnd(v, 2)
        e2 == NumEnd(v, e1 + 1)
        e3 == NumEnd(v, e2 + 1)
    IN  IF v = <<>> \/ v[1] # "v" \/ ~IsNum(v, 2, e1) THEN bad
        ELSE IF e1 > Len(v) THEN [ok |-> TRUE, major |-> e1 - 1, minor |-> 0]
        ELSE IF v[e1] # "." \/ ~IsNum(v, e1 + 1, e2) THEN bad
        ELSE IF e2 > Len(v) THEN [ok |-> TRUE, major |-> e1 - 1, minor |-> e2 - 1]
        ELSE IF v[e2] # "." \/ ~IsNum(v, e2 + 1, e3) THEN bad
        ELSE IF e3 > Len(v) \/ v[e3] \in {"-", "+"}
             THEN [ok |-> TRUE, major |-> e1 - 1, minor |-> e2 - 1]
        ELSE bad

\* semver.Major: "v1" of "v1.2.3", "" of an invalid version.
SemverMajor(v) ==
    LET p == SemverParse(v)
    IN  IF p.ok THEN SubSeq(v, 1, p.major) ELSE <<>>

\* semver.MajorMinor: "v1.2" of "v1.2.3", "v1.0" of "v1", "" of an invalid
\* version.
SemverMajorMinor(v) ==
    LET p == SemverParse(v)
    IN  IF ~p.ok THEN <<>>
        ELSE IF p.minor = 0 THEN SubSeq(v, 1, p.major) \o <<".", "0">>
        ELSE SubSeq(v, 1, p.minor)

\* inStdLib: the first element of the path holds no dot.
inStdLib(path) ==
    LET i == IndexOf(path, "/")
        first == IF i # 0 THEN SubSeq(path, 1, i - 1) ELSE path
    IN  IndexOf(first, ".") = 0

\* The series paths of the versions the database returns.
SeriesStd == <<"s", "t", "d">>
SeriesDE == <<"d", ".", "e">>
SeriesDEA == <<"d", ".", "e", "/", "a">>

\* The packages whose versions are asked for: package b of module d.e/a, and
\* the standard library package a/b.
VersionedPackages ==
    { [Path |-> SeriesDEA \o <<"/", "b">>, V1Path |-> SeriesDEA \o <<"/", "b">>,
       SeriesPath |-> SeriesDEA],
      [Path |-> <<"a", "/", "b">>, V1Path |-> <<"a", "/", "b">>,
       SeriesPath |-> SeriesStd] }

\* Tagged versions as the database can hold them, an invalid one included.
TaggedStrings ==
    { <<"v", "1", ".", "0", ".", "0">>,
      <<"v", "1", ".", "0", ".", "1">>,
      <<"v", "1", ".", "1", ".", "0">>,
      <<"v", "2", ".", "0", ".", "0">>,
      <<"b", "a", "d">> }

\* Pseudo-versions: a base version with a pre-release part.
PseudoStrings ==
    { <<"v", "0", ".", "0", ".", "0", "-", "p">>,
      <<"v", "1", ".", "0", ".", "1", "-", "p">> }

\* The module path of a version: the series path, with the major version
\* suffix from v2 on.
ModulePathOf(series, version) ==
    IF series # SeriesStd /\ SemverMajor(version) = <<"v", "2">>
    THEN series \o <<"/", "v", "2">>
    ELSE series

\* The version rows the database can return for the version strings vs.
VersionInfos(vs) ==
    { [SeriesPath |-> sp, ModulePath |-> ModulePathOf(sp, v), Version |-> v] :
        sp \in {SeriesStd, SeriesDE, SeriesDEA}, v \in vs }

VersionLists(vs) == UNION {[1..n -> VersionInfos(vs)] : n \in 0..MaxVersions}

\* Lines 345-350: a version of another series is kept only when its series
\* path is a prefix of the package's v1 path.
MismatchingSeries(v) ==
    /\ v.SeriesPath # pkg.SeriesPath
    /\ ~HasPrefix(pkg.V1Path, v.SeriesPath)

\* Lines 352-360: the package path shown for version v.
PkgPath(v) ==
    LET suffix == TrimPrefix(TrimPrefix(pkg.V1Path, v.SeriesPath), <<"/">>)
    IN  IF inStdLib(pkg.Path) THEN pkg.Path
        ELSE IF suffix = <<>> THEN v.ModulePath
        ELSE v.ModulePath \o <<"/">> \o suffix

\* curSeries == nil || curSeries.Series != series
NewSeries(cur, series) == cur = 0 \/ seriesGroups[cur].Series # series

\* curMajor == nil || curMajor.Major != major
NewMajor(cur, major) == cur = 0 \/ majorGroups[cur].Major # major

\* Variant: a minor group is opened only when there is none.
NewMinorWhenNil(cur, majMin) == cur = 0

\* curMinor == nil || curMinor.Minor != majMin
NewMinor(cur, majMin) == cur = 0 \/ minorGroups[cur].Minor # majMin

VersionsInit ==
    /\ pkg \in VersionedPackages
    /\ versions = <<>>
    /\ dbCalls = <<>>
    /\ versionsPc = "fetch"
    /\ idx = 1
    /\ packages = <<>>
    /\ seriesGroups = <<>>
    /\ majorGroups = <<>>
    /\ minorGroups = <<>>
    /\ svg = <<>>
    /\ curSeries = 0
    /\ curMajor = 0
    /\ curMinor = 0
    /\ versionsRet = "none"
    /\ SearchIdle
    /\ ServeIdle

\* Lines 325-336: the tagged versions, or the pseudo-versions when there are
\* no tagged ones; an error of either call is returned.
Fetch ==
    /\ versionsPc = "fetch"
    /\ \/ /\ dbCalls' = <<"GetTaggedVersionsForPackageSeries">>
          /\ \/ versions' = versions /\ versionsRet' = "error"
                    /\ versionsPc' = "returned"
             \/ \E tagged \in VersionLists(TaggedStrings) :
                    /\ Len(tagged) # 0
                    /\ versions' = tagged
                    /\ versionsRet' = versionsRet
                    /\ versionsPc' = "range"
       \/ /\ dbCalls' = <<"GetTaggedVersionsForPackageSeries",
                          "GetPseudoVersionsForPackageSeries">>
          /\ \/ versions' = versions /\ versionsRet' = "error"
                    /\ versionsPc' = "returned"
             \/ \E pseudo \in VersionLists(PseudoStrings) :
                    /\ versions' = pseudo
                    /\ versionsRet' = versionsRet
                    /\ versionsPc' = "range"
    /\ UNCHANGED <<pkg, idx, packages, seriesGroups, majorGroups, minorGroups,
                   svg, curSeries, curMajor, curMinor, searchVars, serveVars>>

\* Lines 344-393: one iteration of the range loop, for versions[idx].
RangeStep ==
    /\ versionsPc = "range"
    /\ idx <= Len(versions)
    /\ idx' = idx + 1
    /\ LET v == versions[idx] IN
       IF MismatchingSeries(v)
       THEN UNCHANGED <<packages, seriesGroups, majorGroups, minorGroups,
                        svg, curSeries, curMajor, curMinor>>
       ELSE
         LET latest == Len(packages) + 1
             series == v.SeriesPath
             newSeries == NewSeries(curSeries, series)
             series1 == IF newSeries
                        THEN Append(seriesGroups,
                                    [Series |-> series, Latest |-> latest,
                                     MajorVersions |-> <<>>])
                        ELSE seriesGroups
             curSeries1 == IF newSeries THEN Len(series1) ELSE curSeries
             curMajor0 == IF newSeries THEN 0 ELSE curMajor
             curMinor0 == IF newSeries THEN 0 ELSE curMinor
             major == SemverMajor(v.Version)
             newMajor == NewMajor(curMajor0, major)
             majors1 == IF newMajor
                        THEN Append(majorGroups,
                                    [Major |-> major, Latest |-> latest,
                                     MinorVersions |-> <<>>])
                        ELSE majorGroups
             curMajor1 == IF newMajor THEN Len(majors1) ELSE curMajor0
             series2 == IF newMajor
                        THEN [series1 EXCEPT ![curSeries1].MajorVersions =
                                                Append(@, curMajor1)]
                        ELSE series1
             majMin == SemverMajorMinor(v.Version)
             newMinor == NewMinor(curMinor0, majMin)
             minors1 == IF newMinor
                        THEN Append(minorGroups,
                                    [Minor |-> majMin, Latest |-> latest,
                                     PatchVersions |-> <<>>])
                        ELSE minorGroups
             curMinor1 == IF newMinor THEN Len(minors1) ELSE curMinor0
             majors2 == IF newMinor
                        THEN [majors1 EXCEPT ![curMajor1].MinorVersions =
                                                Append(@, curMinor1)]
                        ELSE majors1
         IN  /\ packages' = Append(packages,
                                   [Version |-> v.Version, Path |-> PkgPath(v)])
             /\ svg' = IF newSeries THEN Append(svg, curSeries1) ELSE svg
             /\ seriesGroups' = series2
             /\ majorGroups' = majors2
             /\ minorGroups' = [minors1 EXCEPT ![curMinor1].PatchVersions =
                                                  Append(@, latest)]
             /\ curSeries' = curSeries1
             /\ curMajor' = curMajor1
             /\ curMinor' = curMinor1
    /\ UNCHANGED <<pkg, versions, dbCalls, versionsPc, versionsRet,
                   searchVars, serveVars>>

\* Lines 395-397: the loop is over; the groups are returned.
ReturnVersions ==
    /\ versionsPc = "range"
    /\ idx > Len(versions)
    /\ versionsPc' = "returned"
    /\ versionsRet' = "ok"
    /\ UNCHANGED <<pkg, versions, dbCalls, idx, packages, seriesGroups,
                   majorGroups, minorGroups, svg, curSeries, curMajor,
                   curMinor, searchVars, serveVars>>

VersionsNext == Fetch \/ RangeStep \/ ReturnVersions

SpecVersions == VersionsInit /\ [][VersionsNext]_vars

(***************************************************************************)
(* The state machine.                                                      *)
(***************************************************************************)
NoQuery == [score |-> <<"none">>, where |-> <<"none">>]

Filters == {"filterSymbol", "filterPackageDotSymbol", "filterMultiWord"}

FilterNamed(n) ==
    CASE n = "filterSymbol" -> filterSymbol
      [] n = "filterPackageDotSymbol" -> filterPackageDotSymbol
      [] n = "filterMultiWord" -> filterMultiWord

Init ==
    /\ corpus \in {c \in SUBSET RowIds : Cardinality(c) <= MaxCorpus}
    /\ arg1 \in Queries
    /\ arg2 \in -1..MaxLimit
    /\ query = NoQuery
    /\ pc = "init"
    /\ status = "none"
    /\ results = {}
    /\ rows = <<>>
    /\ ServeIdle
    /\ VersionsIdle

\* One of the three package-level queries is built by constructQuery.
Construct ==
    /\ pc = "init"
    /\ \E n \in Filters : query' = constructQuery(FilterNamed(n))
    /\ pc' = "built"
    /\ UNCHANGED <<corpus, arg1, arg2, status, results, rows, serveVars, versionsVars>>

\* The database runs the statement with $1 = arg1 and $2 = arg2.
Execute ==
    /\ pc = "built"
    /\ pc' = "done"
    /\ IF StatementFails(query, arg1, arg2)
       THEN /\ status' = "error"
            /\ results' = {}
            /\ rows' = <<>>
       ELSE LET cte == ResultsCTE(query, arg1, corpus)
            IN  /\ status' = "ok"
                /\ results' = cte
                /\ \E s \in OrderBy({r \in cte : AboveFloor(r)}) :
                        rows' = Limit(s, arg2)
    /\ UNCHANGED <<corpus, arg1, arg2, query, serveVars, versionsVars>>

Next == Construct \/ Execute

Spec == Init /\ [][Next]_vars

(***************************************************************************)
(* Properties.                                                             *)
(***************************************************************************)
Done == pc = "done"
Ok == pc = "done" /\ status = "ok"

Range(s) == {s[i] : i \in 1..Len(s)}

HasDot(s) == \E i \in 1..Len(s) : s[i] = "."
HasSpace(s) == \E i \in 1..Len(s) : s[i] \in {" ", "\t"}

FirstDot(s) == CHOOSE i \in 1..Len(s) : s[i] = "." /\ \A j \in 1..(i - 1) : s[j] # "."

\* The text before and after the first dot of a text that has one.
HeadOf(s) == [i \in 1..(FirstDot(s) - 1) |-> s[i]]
RestOf(s) == [i \in 1..(Len(s) - FirstDot(s)) |-> s[FirstDot(s) + i]]

\* normalize: every underscore becomes a hyphen.
Normalize(s) == [i \in 1..Len(s) |-> IF s[i] = "_" THEN "-" ELSE s[i]]

\* The words of a text: its maximal runs of characters that are not white space.
Words(s) ==
    {[k \in 1..(j - i + 1) |-> s[i + k - 1]] : <<i, j>> \in
        {p \in (1..Len(s)) \X (1..Len(s)) :
            /\ p[1] <= p[2]
            /\ \A k \in p[1]..p[2] : s[k] \notin {" ", "\t"}
            /\ (p[1] = 1 \/ s[p[1] - 1] \in {" ", "\t"})
            /\ (p[2] = Len(s) \/ s[p[2] + 1] \in {" ", "\t"})}}

\* The match tokens of a set of words.
TokensOf(ws) == {Lower(Normalize(w)) : w \in ws}

\* C1: every returned row has a score strictly greater than 0.1, for each of
\* the three queries, any corpus and any limit.
C1_ScoreAboveFloor ==
    Ok => \A i \in 1..Len(rows) : rows[i].score > 100000

\* A row at or below the floor matched the filter, and other rows came back.
C1_Witness ==
    /\ Ok
    /\ \E r \in results : r.score <= 100000
    /\ Len(rows) > 0

\* C2: the four-key comparator is a strict total order over the rows of the
\* result, so the output order is the same however the rows are presented:
\* no two distinct rows compare as equal.
C2_TotalOrder ==
    Ok => /\ \A r1, r2 \in {r \in results : r.score > 100000} :
                r1 # r2 => OrderedBefore(r1, r2) \/ OrderedBefore(r2, r1)
          /\ Cardinality(OrderBy({r \in results : r.score > 100000})) = 1

\* C3: adjacent rows of the result are in order: score descending, commit time
\* descending, symbol name ascending, package path ascending.
C3_AdjacentOrdered ==
    Ok => \A i \in 1..(Len(rows) - 1) :
            LET r1 == rows[i]
                r2 == rows[i + 1]
                c1 == Pkg(r1.id).commit_time
                c2 == Pkg(r2.id).commit_time
                n1 == Sym(r1.id).name
                n2 == Sym(r2.id).name
                p1 == Pkg(r1.id).package_path
                p2 == Pkg(r2.id).package_path
            IN  \/ r1.score > r2.score
                \/ r1.score = r2.score /\ c1 > c2
                \/ r1.score = r2.score /\ c1 = c2 /\ TextLess(n1, n2)
                \/ /\ r1.score = r2.score /\ c1 = c2 /\ n1 = n2
                   /\ (p1 = p2 \/ TextLess(p1, p2))

\* Two adjacent rows tie on score and commit time and differ in symbol name.
C3_Witness ==
    /\ Ok
    /\ \E i \in 1..(Len(rows) - 1) :
        /\ rows[i].score = rows[i + 1].score
        /\ Pkg(rows[i].id).commit_time = Pkg(rows[i + 1].id).commit_time
        /\ Sym(rows[i].id).name # Sym(rows[i + 1].id).name

EmptyHead(s) == HasDot(s) /\ HeadOf(s) = <<>>
EmptyRest(s) == HasDot(s) /\ RestOf(s) = <<>>

\* C4 as stated: a qualified-reference query with an empty head or an empty
\* rest fails (InvalidQuery) and returns no result list.
C4_Original ==
    (Done /\ query = rawLegacyQueryPackageDotSymbol
          /\ (EmptyHead(arg1) \/ EmptyRest(arg1)))
        => status = "error"

\* C4 amended: with a limit that is not negative and no white space in the
\* text, such a query is run as a qualified-reference query and succeeds: an
\* empty rest matches no row, and an empty head matches only rows of a package
\* whose name or path is the empty text.
C4_EmptyPartsSucceed ==
    (Done /\ query = rawLegacyQueryPackageDotSymbol
          /\ arg2 >= 0 /\ ~HasSpace(arg1)
          /\ (EmptyHead(arg1) \/ EmptyRest(arg1)))
        => /\ status = "ok"
           /\ EmptyRest(arg1) => results = {}
           /\ \A r \in results :
                \/ Pkg(r.id).name = HeadOf(arg1)
                \/ Pkg(r.id).package_path = HeadOf(arg1)
           /\ Range(rows) \subseteq results

\* A query with an empty head was run over a corpus holding a symbol that
\* matches its rest.
C4_Witness ==
    /\ Ok
    /\ query = rawLegacyQueryPackageDotSymbol
    /\ EmptyHead(arg1)
    /\ arg2 > 0
    /\ \E id \in corpus : Lower(Normalize(RestOf(arg1))) \in Sym(id).tsv_name_tokens

Ids(rs) == {r.id : r \in rs}

NameTokensMeet(id, toks) == Sym(id).tsv_name_tokens \cap toks # {}
PathTokensMeet(id, toks) ==
    {t.lex : t \in Pkg(id).tsv_path_tokens} \cap toks # {}

\* C6: for every input with white space the multi-word query OR-combines
\* exactly the words between runs of white space: two spaces or a tab between
\* words give the tokens single spaces give, and evaluation does not fail.
C6_WhitespaceRuns ==
    (Done /\ query = rawLegacyQueryMultiWord /\ arg2 >= 0 /\ HasSpace(arg1))
        => /\ status = "ok"
           /\ Ids(results) =
                {id \in corpus : /\ NameTokensMeet(id, TokensOf(Words(arg1)))
                                 /\ PathTokensMeet(id, TokensOf(Words(arg1)))}

\* C7: the qualified-reference query admits a row iff the package's name or
\* path equals the text before the first dot as written (no normalization, case
\* kept) and the symbol's name tokens meet the normalized text after the
\* first dot.
C7_QualifiedSplit ==
    (Ok /\ query = rawLegacyQueryPackageDotSymbol /\ ~HasSpace(arg1))
        => Ids(results) =
            {id \in corpus :
                /\ HasDot(arg1)
                /\ RestOf(arg1) # <<>>
                /\ \/ Pkg(id).name = HeadOf(arg1)
                   \/ Pkg(id).package_path = HeadOf(arg1)
                /\ NameTokensMeet(id, TokensOf({RestOf(arg1)}))}

\* A head with an underscore, or a rest with a second dot, found a row.
C7_Witness ==
    /\ Ok
    /\ query = rawLegacyQueryPackageDotSymbol
    /\ results # {}
    /\ \/ "_" \in Range(HeadOf(arg1))
       \/ "." \in Range(RestOf(arg1))

\* C8: the multi-word query admits a row iff the symbol's name tokens meet the
\* query tokens and the package's path tokens meet the same query tokens; a row
\* that meets only one of the two is never returned.
C8_MultiWordBothSides ==
    (Ok /\ query = rawLegacyQueryMultiWord)
        => /\ Ids(results) =
                {id \in corpus : /\ NameTokensMeet(id, TokensOf(Words(arg1)))
                                 /\ PathTokensMeet(id, TokensOf(Words(arg1)))}
           /\ Range(rows) \subseteq results

\* One row was admitted through two different tokens, another row of the
\* corpus met only one side and was left out.
C8_Witness ==
    /\ Ok
    /\ query = rawLegacyQueryMultiWord
    /\ \E r \in Range(rows) : \E t1, t2 \in TokensOf(Words(arg1)) :
            /\ t1 # t2
            /\ NameTokensMeet(r.id, {t1}) /\ ~NameTokensMeet(r.id, {t2})
            /\ PathTokensMeet(r.id, {t2}) /\ ~PathTokensMeet(r.id, {t1})
    /\ \E id \in corpus \ Ids(results) :
            \/ NameTokensMeet(id, TokensOf(Words(arg1)))
            \/ PathTokensMeet(id, TokensOf(Words(arg1)))

\* The lexical rank of a row's package against the OR-combined query tokens.
LexicalRank(id, a1) ==
    TsRank([D |-> 100, C |-> 200, B |-> 1000, A |-> 1000],
           Pkg(id).tsv_path_tokens,
           [k |-> "query", ors |-> {{t} : t \in TokensOf(Words(a1))}])

PopularityWeight(id) == LnTable[Pkg(id).imported_by_count + 1]

\* C9: the score is the popularity weight alone for the bare-symbol and the
\* qualified-reference filter, and lexical rank times popularity weight
\* exactly for the multi-word filter; a query has one score and one filter.
C9_ScoreByStrategy ==
    /\ pc # "init" =>
        /\ DOMAIN query = {"score", "where"}
        /\ query.where \in {filterSymbol, filterPackageDotSymbol, filterMultiWord}
        /\ (query.where = filterMultiWord) <=> (query.score = formatScore(scoreMultiWord))
        /\ (query.where # filterMultiWord) <=> (query.score = popularityMultiplier)
    /\ Ok => \A r \in results :
                r.score = IF query.where = filterMultiWord
                          THEN LexicalRank(r.id, arg1) * PopularityWeight(r.id)
                          ELSE PopularityWeight(r.id) * 1000

\* The multi-word query gave a row a score that is not its popularity weight.
C9_Witness ==
    /\ Ok
    /\ query.where = filterMultiWord
    /\ \E r \in results : r.score # PopularityWeight(r.id) * 1000 /\ r.score > 0

\* C10: with the lexical rank fixed the score does not decrease as popularity
\* grows, and in a multi-word result two rows of equal lexical rank and
\* different popularity come with the more popular one first, whatever their
\* commit times, names and paths.
C10_PopularityMonotone ==
    Ok => /\ \A r1, r2 \in results :
                (/\ LexicalRank(r1.id, arg1) = LexicalRank(r2.id, arg1)
                 /\ Pkg(r1.id).imported_by_count <= Pkg(r2.id).imported_by_count)
                    => r1.score <= r2.score
          /\ query.where = filterMultiWord =>
                \A i, j \in 1..Len(rows) :
                    (/\ i < j
                     /\ LexicalRank(rows[i].id, arg1) = LexicalRank(rows[j].id, arg1))
                        => Pkg(rows[i].id).imported_by_count
                                >= Pkg(rows[j].id).imported_by_count

\* A more popular row came before a less popular row of the same lexical rank
\* and a later commit time.
C10_Witness ==
    /\ Ok
    /\ query.where = filterMultiWord
    /\ \E i, j \in 1..Len(rows) :
        /\ i < j
        /\ LexicalRank(rows[i].id, arg1) = LexicalRank(rows[j].id, arg1)
        /\ Pkg(rows[i].id).imported_by_count > Pkg(rows[j].id).imported_by_count
        /\ Pkg(rows[i].id).commit_time < Pkg(rows[j].id).commit_time

\* C11: in the multi-word query a row whose package has lexical rank zero
\* against the query tokens has score zero whatever its popularity, and is
\* never in the result.
C11_ZeroRankZeroScore ==
    (Ok /\ query = rawLegacyQueryMultiWord)
        => \A id \in corpus :
            LexicalRank(id, arg1) = 0
                => /\ EvalScore(query.score, id, arg1) = 0
                   /\ id \notin Ids(Range(rows))
                   /\ id \notin Ids(results)

\* A row of a popular package with rank zero, whose symbol matches the query,
\* was left out while another row came back.
C11_Witness ==
    /\ Ok
    /\ query = rawLegacyQueryMultiWord
    /\ Len(rows) > 0
    /\ \E id \in corpus :
        /\ LexicalRank(id, arg1) = 0
        /\ Pkg(id).imported_by_count >= 50
        /\ NameTokensMeet(id, TokensOf(Words(arg1)))

\* C12: for the bare query A over a corpus with a symbol named A and a symbol
\* named A_B, no row of an A_B symbol comes before a row of an A symbol,
\* whatever the popularity and commit time of their packages.
C12_ExactBeforeNearMiss ==
    (Ok /\ query = rawLegacyQuerySymbol /\ arg1 = <<"A">>)
        => \A i, j \in 1..Len(rows) :
                i < j => ~(/\ Sym(rows[i].id).name = <<"A", "_", "B">>
                           /\ Sym(rows[j].id).name = <<"A">>)

\* In a text expression every use of the parameter is the first argument of
\* replace(., '_', '-'): the parameter is normalized before anything else.
RECURSIVE ParamsNormalized(_)
ParamsNormalized(e) ==
    CASE e[1] = "param" -> FALSE
      [] e[1] = "replace" ->
            IF e[2][1] = "param" THEN e[3] = "_" /\ e[4] = <<"-">>
            ELSE ParamsNormalized(e[2])
      [] OTHER -> ParamsNormalized(e[2])

\* The text expression without the normalization of its parameter.
RECURSIVE Unnormalized(_)
Unnormalized(e) ==
    CASE e[1] = "param" -> e
      [] e[1] = "replace" ->
            IF e[2][1] = "param" /\ e[3] = "_" THEN e[2]
            ELSE <<"replace", Unnormalized(e[2]), e[3], e[4]>>
      [] e[1] = "split_part" -> <<"split_part", Unnormalized(e[2]), e[3], e[4]>>
      [] e[1] = "substring" -> <<"substring", Unnormalized(e[2]), e[3]>>

\* Every to_tsquery argument of an expression is the split or extraction of
\* the normalized parameter.
RECURSIVE TsArgsNormalized(_, _)
TsArgsNormalized(e, a1) ==
    CASE e[1] = "paren" -> TsArgsNormalized(e[2], a1)
      [] e[1] \in {"and", "or", "mul"} ->
            TsArgsNormalized(e[2], a1) /\ TsArgsNormalized(e[3], a1)
      [] e[1] = "tsmatch" -> TsArgsNormalized(e[3], a1)
      [] e[1] = "ts_rank" -> TsArgsNormalized(e[4], a1)
      [] e[1] = "to_tsquery" ->
            /\ ParamsNormalized(e[3])
            /\ EvalText(e[3], a1) = EvalText(Unnormalized(e[3]), Normalize(a1))
      [] OTHER -> TRUE

\* C13: normalization turns every underscore of the match token into a hyphen
\* and is idempotent; in each of the three queries every to_tsquery argument is
\* made from the normalized parameter, normalized before the split on spaces
\* and before the extraction after the first dot.
C13_TokensNormalized ==
    pc # "init" =>
        LET n == EvalText(processArg(Param1), arg1)
        IN  /\ n = Normalize(arg1)
            /\ "_" \notin Range(n)
            /\ EvalText(processArg(Param1), n) = n
            /\ TsArgsNormalized(query.where, arg1)
            /\ TsArgsNormalized(query.score, arg1)

\* A multi-word text with an underscore found a row.
C13_Witness ==
    /\ Ok
    /\ query = rawLegacyQueryMultiWord
    /\ "_" \in Range(arg1)
    /\ \E i \in 1..Len(rows) : "_" \in Range(Sym(rows[i].id).name)

\* The rows above the floor, and r1 sorting strictly before r2 by the four keys.
Kept == {r \in results : r.score > 100000}

SortsBefore(r1, r2) ==
    LET k1 == <<Pkg(r1.id).commit_time, Sym(r1.id).name, Pkg(r1.id).package_path>>
        k2 == <<Pkg(r2.id).commit_time, Sym(r2.id).name, Pkg(r2.id).package_path>>
    IN  \/ r1.score > r2.score
        \/ r1.score = r2.score /\ k1[1] > k2[1]
        \/ r1.score = r2.score /\ k1[1] = k2[1] /\ TextLess(k1[2], k2[2])
        \/ /\ r1.score = r2.score /\ k1[1] = k2[1] /\ k1[2] = k2[2]
           /\ TextLess(k1[3], k2[3])

\* C14: the result has at most limit rows; it is the first min(limit, n) rows
\* of the n rows above the floor in sorted order, so no row left out by the
\* limit sorts before a returned row.
C14_LimitAfterSort ==
    Ok => /\ Len(rows) <= arg2
          /\ Len(rows) = (IF arg2 < Cardinality(Kept) THEN arg2 ELSE Cardinality(Kept))
          /\ Range(rows) \subseteq Kept
          /\ \A i, j \in 1..Len(rows) : i # j => rows[i] # rows[j]
          /\ \A r \in Kept \ Range(rows) : \A i \in 1..Len(rows) :
                ~SortsBefore(r, rows[i])

\* The limit left out a row that sorts strictly after every returned row.
C14_Witness ==
    /\ Ok
    /\ Len(rows) > 0
    /\ \E r \in Kept \ Range(rows) : \A i \in 1..Len(rows) : SortsBefore(rows[i], r)

\* The rows of the corpus that are build-target variants of row id.
Variants(id) ==
    {o \in corpus : /\ RowTable[o].sym = RowTable[id].sym
                    /\ RowTable[o].pkg = RowTable[id].pkg}

\* C15: build-target variants are not deduplicated: the variants of a symbol
\* of a package match together and have the same score, each is one row of
\* the results, and the k variants above the floor are k rows of the result
\* when the limit does not cut it.
C15_VariantsKept ==
    Ok => /\ Cardinality(results) = Cardinality(Ids(results))
          /\ \A r \in results : \A o \in Variants(r.id) :
                [id |-> o, score |-> r.score] \in results
          /\ arg2 >= Cardinality(Kept) =>
                \A r \in Kept :
                    Cardinality({i \in 1..Len(rows) : rows[i].id \in Variants(r.id)})
                        = Cardinality(Variants(r.id))

\* Two build-target variants of one symbol of one package both came back.
C15_Witness ==
    /\ Ok
    /\ \E i, j \in 1..Len(rows) :
        /\ i # j
        /\ rows[i].id # rows[j].id
        /\ rows[j].id \in Variants(rows[i].id)
        /\ RowTable[rows[i].id].goos # RowTable[rows[j].id].goos

(***************************************************************************)
(* Properties of legacyServePackagePage.                                   *)
(***************************************************************************)
Returned == servePc = "returned"

Is404(r) == r \in {"404 not found", "404 found at latest"}

\* C16: for a requested version other than latest, when the package and the
\* directory lookup at the resolved version both answer NotFound, a not-found
\* error (a 404) is returned whatever the lookup of the latest package
\* answers, an unexpected error included.
C16_NotFoundWhateverLatest ==
    (/\ Returned
     /\ requestedVersion # "latest"
     /\ ds.package = "NotFound"
     /\ ds.directory = "NotFound")
        => Is404(ret)

\* C17: the lookups are made in the order package, directory, latest package;
\* each later one only after every earlier one answered NotFound; the latest
\* package is not looked up when the requested version is latest; an
\* unexpected error of the first package lookup or of the directory lookup is
\* returned and no page is served.
C17_LookupOrder ==
    /\ HasPrefix(<<"package@resolved", "directory@resolved", "package@latest">>,
                 calls)
    /\ Len(calls) >= 2 => ds.package = "NotFound"
    /\ Len(calls) >= 3 => ds.directory = "NotFound" /\ requestedVersion # "latest"
    /\ (Returned /\ ds.package = "error")
            => ret = "error" /\ served = "none" /\ Len(calls) = 1
    /\ (Returned /\ ds.package = "NotFound" /\ ds.directory = "error")
            => /\ ret = IF requestedVersion = "latest" THEN "error"
                        ELSE "checking for directory: error"
               /\ served = "none"
               /\ Len(calls) = 2
    /\ Returned => Len(calls) >= 1

\* All three lookups were made, for a version that is not the latest.
C17_Witness ==
    /\ Returned
    /\ Len(calls) = 3
    /\ requestedVersion # "latest"

(***************************************************************************)
(* Properties of fetchVersionsDetails.                                     *)
(***************************************************************************)
\* The versions the loop has gone through that were not skipped, in input
\* order; the k-th of them is the one packages[k] was made for.
KeptVersions ==
    SelectSeq(SubSeq(versions, 1, idx - 1), LAMBDA v : ~MismatchingSeries(v))

\* The Package pointers of the PatchVersions lists of the minor groups ms,
\* in order.
RECURSIVE PatchesOfMinors(_)
PatchesOfMinors(ms) ==
    IF ms = <<>> THEN <<>>
    ELSE minorGroups[Head(ms)].PatchVersions \o PatchesOfMinors(Tail(ms))

RECURSIVE PatchesOfMajors(_)
PatchesOfMajors(Ms) ==
    IF Ms = <<>> THEN <<>>
    ELSE PatchesOfMinors(majorGroups[Head(Ms)].MinorVersions)
            \o PatchesOfMajors(Tail(Ms))

RECURSIVE PatchesOfSeries(_)
PatchesOfSeries(ss) ==
    IF ss = <<>> THEN <<>>
    ELSE PatchesOfMajors(seriesGroups[Head(ss)].MajorVersions)
            \o PatchesOfSeries(Tail(ss))

LatestIsFirst(latest, placed) == placed # <<>> /\ latest = placed[1]

\* C18: the versions that are not skipped for a mismatching series are each
\* in exactly one PatchVersions list and the lists, read in order, give them
\* in input order; every version carries the series, major and major.minor
\* of the labels of the groups around it; the Latest of a group is the first
\* version placed in it.
C18_GroupedInOrder ==
    LET all == PatchesOfSeries(svg)
    IN  /\ Len(packages) = Len(KeptVersions)
        /\ \A k \in 1..Len(packages) : packages[k].Version = KeptVersions[k].Version
        /\ all = [k \in 1..Len(packages) |-> k]
        /\ \A si \in 1..Len(svg) :
             LET sg == seriesGroups[svg[si]]
             IN  /\ LatestIsFirst(sg.Latest, PatchesOfMajors(sg.MajorVersions))
                 /\ \A Mi \in 1..Len(sg.MajorVersions) :
                      LET Mg == majorGroups[sg.MajorVersions[Mi]]
                      IN  /\ LatestIsFirst(Mg.Latest,
                                           PatchesOfMinors(Mg.MinorVersions))
                          /\ \A mi \in 1..Len(Mg.MinorVersions) :
                               LET mg == minorGroups[Mg.MinorVersions[mi]]
                               IN  /\ LatestIsFirst(mg.Latest, mg.PatchVersions)
                                   /\ \A pi \in 1..Len(mg.PatchVersions) :
                                        LET v == KeptVersions[mg.PatchVersions[pi]]
                                        IN  /\ v.SeriesPath = sg.Series
                                            /\ SemverMajor(v.Version) = Mg.Major
                                            /\ SemverMajorMinor(v.Version) = mg.Minor

\* fetchVersionsDetails returned after it skipped a version and put two
\* versions in one minor group.
C18_Witness ==
    /\ versionsRet = "ok"
    /\ Len(KeptVersions) < Len(versions)
    /\ \E m \in 1..Len(minorGroups) : Len(minorGroups[m].PatchVersions) = 2

\* fetchVersionsDetails returned a series group of two major groups, the
\* first one of two minor groups.
C18_WitnessNested ==
    /\ versionsRet = "ok"
    /\ \E si \in 1..Len(svg) :
         LET sg == seriesGroups[svg[si]]
         IN  /\ Len(sg.MajorVersions) = 2
             /\ Len(majorGroups[sg.MajorVersions[1]].MinorVersions) = 2

====
